---------------------------- MODULE Spec2Model ----------------------------
(***************************************************************************)
(* A model of abelian/functions.py: the class Function, a function on a    *)
(* locally compact abelian group (LCA), with its evaluation, its table     *)
(* cache and its transport operators (shift, pullback, pushforward,        *)
(* transversal, pointwise, dft, idft, copy).                               *)
(*                                                                         *)
(* Python objects are modelled as follows.                                 *)
(*   - A number is an exact Gaussian rational <<re, im, den>> in lowest    *)
(*     terms (den > 0): Python's int, float and complex results agree      *)
(*     under == exactly when these triples are equal.                      *)
(*   - An LCA is a record [periods, discrete]; a period of 0 is an         *)
(*     infinite factor.                                                    *)
(*   - A homomorphism is a record [A, source, target], A a matrix given    *)
(*     as a sequence of rows.                                              *)
(*   - A representation (a Python closure) is a descriptor record: a       *)
(*     named module-level function, a table caller, or one of the          *)
(*     closures the transport operators build, which holds the index of    *)
(*     the Function instance it captured as `self`.                        *)
(*   - An optional value is a sequence of length 0 (None) or 1.            *)
(*   - The extra positional arguments of a call are a sequence.             *)
(***************************************************************************)
EXTENDS Integers, Sequences, FiniteSets, TLC

VARIABLES
    funcs,   \* the Function instances created so far, in order of creation
    origin,  \* for each instance, the call that created it (history)
    ret,     \* the outcome of the last call
    evals,   \* how often the last call invoked a representation itself
    obs,     \* what the last evaluation of a pushforward closure did
    threads, \* the threads inside a to_table() call: position and locals
    cache_log \* the threads that assigned a table cache, in order (history)

vars == <<funcs, origin, ret, evals, obs, threads, cache_log>>

---------------------------------------------------------------------------
(* Numbers: exact Gaussian rationals.                                      *)

Abs(n) == IF n < 0 THEN -n ELSE n

RECURSIVE Gcd(_, _)
Gcd(a, b) == IF b = 0 THEN a ELSE Gcd(b, a % b)

Normalize(re, im, den) ==
    LET g == Gcd(Gcd(Abs(re), Abs(im)), den)
    IN  <<re \div g, im \div g, den \div g>>

Num(n) == <<n, 0, 1>>

NumAdd(a, b) ==
    IF a[3] = 1 /\ b[3] = 1
    THEN <<a[1] + b[1], a[2] + b[2], 1>>
    ELSE Normalize(a[1] * b[3] + b[1] * a[3], a[2] * b[3] + b[2] * a[3], a[3] * b[3])

NumMul(a, b) ==
    Normalize(a[1] * b[1] - a[2] * b[2], a[1] * b[2] + a[2] * b[1], a[3] * b[3])

NumDivInt(a, n) == Normalize(a[1], a[2], a[3] * n)

RECURSIVE IntPow(_, _)
IntPow(x, e) == IF e = 0 THEN 1 ELSE x * IntPow(x, e - 1)

RECURSIVE SumSeq(_)
SumSeq(s) == IF s = <<>> THEN 0 ELSE Head(s) + SumSeq(Tail(s))

RECURSIVE ProdSeq(_)
ProdSeq(s) == IF s = <<>> THEN 1 ELSE Head(s) * ProdSeq(Tail(s))

\* range(a, b) of Python: a, a+1, ..., b-1.
PyRange(a, b) == [i \in 1..(IF b > a THEN b - a ELSE 0) |-> a + i - 1]

\* itertools.product of the lists, in its lexicographic order.
RECURSIVE Product(_)
Product(lists) ==
    IF lists = <<>> THEN << <<>> >>
    ELSE LET rest == Product(Tail(lists))
             first == Head(lists)
             n == Len(rest)
         IN  [k \in 1..(Len(first) * n) |->
                 << first[((k - 1) \div n) + 1] >> \o rest[((k - 1) % n) + 1]]

\* All coordinate tuples with entries of the given sets, as a set.
RECURSIVE Tuples(_)
Tuples(sets) ==
    IF sets = <<>> THEN { <<>> }
    ELSE { <<a>> \o t : a \in Head(sets), t \in Tuples(Tail(sets)) }

---------------------------------------------------------------------------
(* The collaborators of Function: the group model (abelian.groups.LCA),    *)
(* the homomorphism model (abelian.morphisms.HomLCA), the congruence       *)
(* solver (abelian.linalg.solvers.solve) and the helpers of abelian.utils. *)
(* Their code is not part of functions.py; they are modelled from their    *)
(* documented interface and from the doctests of functions.py.             *)

LCA(periods, discrete) == [periods |-> periods, discrete |-> discrete]

\* LCA(periods): every factor discrete.
FGA(periods) == LCA(periods, [i \in 1..Len(periods) |-> TRUE])

length(G) == Len(G.periods)

is_FGA(G) == \A i \in 1..Len(G.discrete) : G.discrete[i]

\* Each coordinate of a periodic factor is reduced modulo its period; the
\* coordinates of the other factors pass through unchanged.
project_element(G, x) ==
    [i \in 1..Len(x) |-> IF G.periods[i] > 0 THEN x[i] % G.periods[i] ELSE x[i]]

\* norm(element, p = 1): the sum of the absolute values.
norm1(x) == SumSeq([i \in 1..Len(x) |-> Abs(x[i])])

HomLCA(A, source, target) == [A |-> A, source |-> source, target |-> target]

MatVec(A, x) ==
    [i \in 1..Len(A) |-> SumSeq([j \in 1..Len(x) |-> A[i][j] * x[j]])]

VecAdd(x, y) == [i \in 1..Len(x) |-> x[i] + y[i]]

\* morphism.evaluate(x): the matrix applied to x, projected to the target.
MorphEvaluate(phi, x) == project_element(phi.target, MatVec(phi.A, x))

\* The identity matrix and diagonal matrices.
Diag(d) == [i \in 1..Len(d) |-> [j \in 1..Len(d) |-> IF i = j THEN d[i] ELSE 0]]

IsDiagonal(A) ==
    \A i \in 1..Len(A) : Len(A[i]) = Len(A) /\ \A j \in 1..Len(A) : (i # j => A[i][j] = 0)

\* morphism.kernel() of a diagonal morphism into a group with finite periods:
\* column i of the kernel generates { x : A[i][i] * x = 0 (mod target period i) },
\* that is the multiples of p / gcd(a, p). The kernel morphism maps a free
\* group of the same dimension into the source of the morphism.
KernelGenerator(a, p) == p \div Gcd(p, Abs(a) % p)

kernel(phi) ==
    LET n == Len(phi.source.periods)
    IN  HomLCA(Diag([i \in 1..n |-> KernelGenerator(phi.A[i][i], phi.target.periods[i])]),
               FGA([i \in 1..n |-> 0]),
               phi.source)

\* The integer solutions x of A x = y (mod periods) with every coordinate
\* between -P and P, P the largest target period: if the congruence has a
\* solution at all, it has one there.
RECURSIVE MaxSeq(_)
MaxSeq(s) == IF s = <<>> THEN 0 ELSE LET m == MaxSeq(Tail(s)) IN IF Head(s) > m THEN Head(s) ELSE m

Solutions(A, y, periods) ==
    LET n == Len(A[1])
        P == MaxSeq(periods)
        T == FGA(periods)
    IN  { x \in Tuples([i \in 1..n |-> (-P)..P]) :
            project_element(T, MatVec(A, x)) = project_element(T, y) }

\* solve(A, y, periods): one integer solution, or none (an optional value).
\* Which solution the solver returns is not fixed by its interface: it is
\* the solution nearest to `pick`, and the callers range over every pick.
solve(A, y, periods, pick) ==
    LET S == Solutions(A, y, periods)
        dist(x) == norm1([i \in 1..Len(x) |-> x[i] - pick[i]])
    IN  IF S = {} THEN <<>>
        ELSE << CHOOSE x \in S : \A z \in S : dist(x) <= dist(z) >>

---------------------------------------------------------------------------
(* Outcomes of a computation: a value, or a raised exception.              *)

Value(v) == [kind |-> "value", val |-> v, err |-> ""]

Raise(e) == [kind |-> "raise", val |-> Num(0), err |-> e]

IsValue(o) == o.kind = "value"

---------------------------------------------------------------------------
(* Tables: a nested list (or array) is a record of its shape and its       *)
(* entries by 0-based coordinate tuple.                                    *)

Coords(dims) == Tuples([i \in 1..Len(dims) |-> 0..(dims[i] - 1)])

Table(shape, data) == [shape |-> shape, data |-> data]

\* verify_dims_list(table, periods): the shape of the table is the periods.
verify_dims_list(table, periods) == table.shape = periods

\* A Python index: -n..-1 count from the end, 0..n-1 from the start,
\* anything else is an IndexError.
IndexOk(idx, n) == -n <= idx /\ idx < n

PyIndex(idx, n) == IF idx < 0 THEN idx + n ELSE idx

\* call_nested_list(table, point): table[point[0]][point[1]]...
call_nested_list(table, point) ==
    IF Len(point) # Len(table.shape) THEN Raise("TypeError")
    ELSE IF \E i \in 1..Len(point) : ~IndexOk(point[i], table.shape[i])
    THEN Raise("IndexError")
    ELSE Value(table.data[[i \in 1..Len(point) |-> PyIndex(point[i], table.shape[i])]])

---------------------------------------------------------------------------
(* The module-level functions the doctests of functions.py wrap.           *)

\* power(list_arg, exponent = 2): sum(x**exponent for x in list_arg)
\* linear(list_arg): sum(list_arg)
\* square_sum: lambda x: sum(x)**2
DefaultExponent == 2

CallFunction(name, x, args) ==
    CASE name = "power" ->
           IF Len(args) > 1 THEN Raise("TypeError")
           ELSE LET e == IF args = <<>> THEN DefaultExponent ELSE args[1]
                IN  Value(Num(SumSeq([i \in 1..Len(x) |-> IntPow(x[i], e)])))
      [] name = "linear" ->
           IF args # <<>> THEN Raise("TypeError") ELSE Value(Num(SumSeq(x)))
      [] name = "square_sum" ->
           IF args # <<>> THEN Raise("TypeError")
           ELSE Value(Num(SumSeq(x) * SumSeq(x)))

\* The transversal rules: each maps a coordinate list of Z_n to a
\* representative. "centered" is the rule of the doctest of transversal;
\* "least" returns the coordinates themselves.
CallRule(rule, y) ==
    CASE rule.name = "centered" ->
           IF 2 * SumSeq(y) < rule.n THEN << SumSeq(y) >> ELSE << SumSeq(y) - rule.n >>
      [] rule.name = "least" -> y

\* The binary operators handed to pointwise.
CallOperator(op, a, b) ==
    CASE op = "add" -> NumAdd(a, b)
      [] op = "mul" -> NumMul(a, b)

\* norm_condition(element): norm(element, p = 1) <= bound.
DefaultNormBound == 10

norm_condition(nc, element) == norm1(element) <= nc.bound

---------------------------------------------------------------------------
(* Representations and their evaluation.                                   *)
(*                                                                         *)
(* `fs` is the sequence of instances, `r` a representation descriptor,     *)
(* `x` the coordinate list, `args` the positional extras, and `env` the    *)
(* choices of the collaborators: env.pick selects the solution the         *)
(* congruence solver returns, env.nosol what arithmetic on the solver's    *)
(* missing answer does.                                                    *)

FunctionRep(name) == [tag |-> "function", name |-> name]

\* list_caller with its __name__ set to 'table'.
TableRep(table) == [tag |-> "table", table |-> table, fname |-> << "table" >>]

\* representation.__name__, as the sequence of its words.
NameOf(r) == IF r.tag = "function" THEN << r.name >> ELSE r.fname

\* Function._update_name(new_func, old_func): the name the new function
\* gets, old_func.__name__ + ' * ' + new_func.__name__.
update_name(new_name, old_name) == old_name \o << "*" >> \o new_name

\* range(-8, 8) of pushforward's new_representation.
WindowLow == -8

WindowHigh == 8

\* The product of dim_ker_source copies of the vector, as itertools orders it.
Window(d) == Product([i \in 1..d |-> PyRange(WindowLow, WindowHigh)])

\* The candidates base_ans + kernel.evaluate(linear_comb), in loop order.
KernelElements(morphism, base_ans) ==
    LET ker == kernel(morphism)
        W == Window(length(ker.source))
    IN  [k \in 1..Len(W) |-> VecAdd(base_ans, MorphEvaluate(ker, W[k]))]

RECURSIVE SumRange(_, _, _)
SumRange(terms, lo, hi) ==
    IF lo > hi THEN Num(0)
    ELSE IF lo = hi THEN terms[lo].val
    ELSE LET mid == (lo + hi) \div 2
         IN  NumAdd(SumRange(terms, lo, mid), SumRange(terms, mid + 1, hi))

\* The loop of pushforward's new_representation over the outcomes of its
\* iterations: the first exception ends it, otherwise the sum is returned.
\* An iteration the norm condition skips adds nothing.
KernelSum(terms) ==
    LET bad == { k \in 1..Len(terms) : ~IsValue(terms[k]) }
    IN  IF bad # {}
        THEN terms[CHOOSE k \in bad : \A j \in bad : k <= j]
        ELSE Value(SumRange(terms, 1, Len(terms)))

NoObs ==
    [pushforward |-> FALSE, solved |-> FALSE, base_ans |-> <<>>,
     visited |-> <<>>, admitted |-> <<>>]

RECURSIVE Rep(_, _, _, _, _)
RECURSIVE pushforward_new_representation(_, _, _, _, _)

\* The loop of pushforward's new_representation over the kernel elements
\* `elems`, where terms[k] is what iteration k adds (0 for an element the
\* norm condition refuses, or the exception the function raised): the sum,
\* and the trace up to the iteration that raised (if any).
pushforward_loop(r, base_ans, W, elems, terms) ==
    LET bad == { k \in 1..Len(terms) : ~IsValue(terms[k]) }
        stop == IF bad = {} THEN Len(elems)
                ELSE CHOOSE k \in bad : \A j \in bad : k <= j
    IN  [out |-> KernelSum(terms),
         obs |-> [pushforward |-> TRUE, solved |-> TRUE, base_ans |-> base_ans,
                  visited |-> SubSeq(W, 1, stop),
                  admitted |-> SelectSeq(SubSeq(elems, 1, stop),
                                  LAMBDA e : norm_condition(r.norm_condition, e))]]

\* The closure new_representation of pushforward, called at x: its
\* outcome (out) and a trace of the call (obs): the solver's answer, the
\* combination vectors the loop drew and the candidates the norm condition
\* let through.
pushforward_new_representation(fs, r, x, args, env) ==
    LET base_ans == solve(r.morphism.A, x, r.morphism.target.periods, env.pick)
        W == Window(length(kernel(r.morphism).source))
    IN  IF base_ans = <<>>
        THEN \* base_ans + kernel.evaluate(...) in the first iteration, on
             \* the missing answer of the solver
             [out |-> IF env.nosol = "raise" THEN Raise("TypeError") ELSE Value(Num(0)),
              obs |-> [pushforward |-> TRUE, solved |-> FALSE, base_ans |-> base_ans,
                       visited |-> IF env.nosol = "raise" THEN SubSeq(W, 1, 1) ELSE W,
                       admitted |-> <<>>]]
        ELSE LET elems == KernelElements(r.morphism, base_ans[1])
             IN  pushforward_loop(r, base_ans, W, elems,
                     [k \in 1..Len(elems) |->
                         IF norm_condition(r.norm_condition, elems[k])
                         THEN Rep(fs, fs[r.self].representation, elems[k], args, env)
                         ELSE Value(Num(0))])

\* list_caller of __init__, the representation of a table: it takes no extras.
list_caller(r, list_of_points, args) ==
    IF args # <<>> THEN Raise("TypeError")
    ELSE call_nested_list(r.table, list_of_points)

\* new_representation of shift; zip stops at the shorter of its lists.
shift_new_representation(fs, r, list_arg, args, env) ==
    LET n == IF Len(list_arg) < Len(r.list_shift) THEN Len(list_arg) ELSE Len(r.list_shift)
        shifted_arg == [i \in 1..n |-> list_arg[i] - r.list_shift[i]]
    IN  Rep(fs, fs[r.self].representation, shifted_arg, args, env)

\* A mutant of pullback's new_repr: the morphism is not applied.
pullback_morphism_dropped(fs, r, list_arg, args, env) ==
    Rep(fs, fs[r.self].representation, list_arg, args, env)

\* new_repr of pullback
pullback_new_repr(fs, r, list_arg, args, env) ==
    LET applied_morph == MorphEvaluate(r.morphism, list_arg)
    IN  Rep(fs, fs[r.self].representation, applied_morph, args, env)

\* A mutant of transversal's new_representation: the rule is not applied,
\* the image under the epimorphism is compared with the argument.
transversal_rule_dropped(fs, r, list_arg, args, env) ==
    LET applied_epi == MorphEvaluate(r.epimorphism, list_arg)
    IN  IF applied_epi = list_arg
        THEN Rep(fs, fs[r.self].representation, applied_epi, args, env)
        ELSE Value(r.default)

\* new_representation of transversal
transversal_new_representation(fs, r, list_arg, args, env) ==
    LET applied_epi == MorphEvaluate(r.epimorphism, list_arg)
        composed == CallRule(r.transversal_rule, applied_epi)
    IN  IF composed = list_arg
        THEN Rep(fs, fs[r.self].representation, applied_epi, args, env)
        ELSE Value(r.default)

\* operator(result_self, result_other) of pointwise's new_repr; an
\* exception of either call is passed on.
pointwise_combine(operator, result_self, result_other) ==
    IF ~IsValue(result_self) THEN result_self
    ELSE IF ~IsValue(result_other) THEN result_other
    ELSE Value(CallOperator(operator, result_self.val, result_other.val))

\* new_repr of pointwise
pointwise_new_repr(fs, r, list_arg, args, env) ==
    pointwise_combine(r.operator,
                      Rep(fs, fs[r.self].representation, list_arg, args, env),
                      Rep(fs, fs[r.other].representation, list_arg, args, env))

\* A call representation(x, *args) of the representation r.
Rep(fs, r, x, args, env) ==
    CASE r.tag = "function" -> CallFunction(r.name, x, args)
      [] r.tag = "table" -> list_caller(r, x, args)
      [] r.tag = "shift" -> shift_new_representation(fs, r, x, args, env)
      [] r.tag = "pullback" -> pullback_new_repr(fs, r, x, args, env)
      [] r.tag = "pushforward" -> pushforward_new_representation(fs, r, x, args, env).out
      [] r.tag = "transversal" -> transversal_new_representation(fs, r, x, args, env)
      [] r.tag = "pointwise" -> pointwise_new_repr(fs, r, x, args, env)

\* A mutant of evaluate: the element is not projected onto the domain.
evaluate_unprojected(fs, i, list_arg, args, env) ==
    IF length(fs[i].domain) # Len(list_arg)
    THEN Raise("ValueError")
    ELSE Rep(fs, fs[i].representation, list_arg, args, env)

\* Function.evaluate(list_arg, *args)
evaluate(fs, i, list_arg, args, env) ==
    IF length(fs[i].domain) # Len(list_arg)
    THEN Raise("ValueError")
    ELSE Rep(fs, fs[i].representation, project_element(fs[i].domain, list_arg), args, env)

\* Function._discrete_periodic_domain()
discrete_periodic_domain(domain) ==
    is_FGA(domain) /\ \A i \in 1..Len(domain.periods) : domain.periods[i] > 0

\* function_to_table(representation, dims, *args): the representation at
\* every point of the product of range(dims[i]), in that order; an
\* exception of the representation ends it. `calls` counts the calls made.
function_to_table(fs, r, dims, args, env) ==
    LET points == Product([i \in 1..Len(dims) |-> PyRange(0, dims[i])])
        cells == [k \in 1..Len(points) |-> Rep(fs, r, points[k], args, env)]
        bad == { k \in 1..Len(points) : ~IsValue(cells[k]) }
        first == CHOOSE k \in bad : \A j \in bad : k <= j
        index(c) == CHOOSE k \in 1..Len(points) : points[k] = c
    IN  IF bad # {}
        THEN [kind |-> "raise", table |-> <<>>, err |-> cells[first].err, calls |-> first]
        ELSE [kind |-> "value",
              table |-> << Table(dims, [c \in Coords(dims) |-> cells[index(c)].val]) >>,
              err |-> "", calls |-> Len(points)]

---------------------------------------------------------------------------
(* numpy.fft.fftn and numpy.fft.ifftn, exactly. A root of unity of order   *)
(* N is a Gaussian integer exactly when N divides 4, so the transforms     *)
(* are modelled on tables whose dimensions are 1, 2 or 4.                  *)

\* i ** q
ImagPow(q) ==
    CASE q % 4 = 0 -> <<1, 0, 1>>
      [] q % 4 = 1 -> <<0, 1, 1>>
      [] q % 4 = 2 -> <<-1, 0, 1>>
      [] q % 4 = 3 -> <<0, -1, 1>>

\* exp(2 pi i t / N), for N in {1, 2, 4}
RootOfUnity(N, t) == ImagPow((4 \div N) * t)

\* exp(sign * 2 pi i * sum_j m[j] k[j] / dims[j])
Twiddle(dims, m, k, sign) ==
    ImagPow(SumSeq([j \in 1..Len(dims) |-> (4 \div dims[j]) * m[j] * k[j] * sign]))

RECURSIVE SumNums(_, _)
SumNums(S, f) ==
    IF S = {} THEN Num(0)
    ELSE LET c == CHOOSE c \in S : TRUE
         IN  NumAdd(f[c], SumNums(S \ {c}, f))

\* A_k = sum_m a_m exp(-2 pi i (m k / N))
fftn(table) ==
    LET dims == table.shape
        C == Coords(dims)
    IN  Table(dims, [k \in C |->
            SumNums(C, [m \in C |-> NumMul(table.data[m], Twiddle(dims, m, k, -1))])])

\* a_m = (1 / prod(N)) sum_k A_k exp(2 pi i (m k / N))
ifftn(table) ==
    LET dims == table.shape
        C == Coords(dims)
    IN  Table(dims, [m \in C |->
            NumDivInt(
              SumNums(C, [k \in C |-> NumMul(table.data[k], Twiddle(dims, m, k, 1))]),
              ProdSeq(dims))])

\* A mutant of the forward scaling: numpy's own convention, which does not
\* divide the forward transform.
TableDivDropped(table, n) == table

\* table_computed / prod(dims) and table_computed * prod(dims)
TableDiv(table, n) ==
    Table(table.shape, [c \in Coords(table.shape) |-> NumDivInt(table.data[c], n)])

TableMul(table, n) ==
    Table(table.shape, [c \in Coords(table.shape) |-> NumMul(table.data[c], Num(n))])

---------------------------------------------------------------------------
(* The state: the instances and the outcome of the last call.              *)

Instance(domain, representation, table) ==
    [domain |-> domain, representation |-> representation, table |-> table]

\* The outcome of the last call `op` on instance `self`, with its arguments
\* (x, args, a morphism, another instance, the constructor's representation
\* and domain). kind is "value"
\* (a number, in num), "function" (a new instance, its index in inst),
\* "table" (in table), "none" (None was returned), "error_object" (an
\* exception object was returned, its class in err) or "raise" (an
\* exception was raised, its class in err).
Outcome(op, self) ==
    [op |-> op, self |-> self, x |-> <<>>, args |-> <<>>, morphism |-> <<>>, other |-> 0,
     arg |-> <<>>, domain |-> <<>>,
     kind |-> "none",
     num |-> Num(0), inst |-> 0, table |-> <<>>, err |-> "", transformed |-> FALSE]

\* What a call leaves behind: the instances, its outcome, the number of
\* times it invoked a representation itself, and the pushforward trace.
Result(fs, r, n, o) == [funcs |-> fs, ret |-> r, evals |-> n, obs |-> o]

\* Function.__init__(representation, domain): what it raises, or the new
\* instance. `arg` is a function (a representation descriptor) or a table.
FunctionArg(r) == [type |-> "FunctionType", f |-> r]

TableArg(t) == [type |-> "table", t |-> t]

\* A mutant of __init__: the dimensions of the table are not verified.
Function_init_unverified(arg, domain) ==
    IF arg.type = "FunctionType"
    THEN [err |-> "", inst |-> << Instance(domain, arg.f, <<>>) >>]
    ELSE IF ~discrete_periodic_domain(domain)
    THEN [err |-> "TypeError", inst |-> <<>>]
    ELSE [err |-> "", inst |-> << Instance(domain, TableRep(arg.t), <<arg.t>>) >>]

\* Function.__init__(representation, domain)
Function_init(arg, domain) ==
    IF arg.type = "FunctionType"
    THEN [err |-> "", inst |-> << Instance(domain, arg.f, <<>>) >>]
    ELSE IF ~discrete_periodic_domain(domain)
    THEN [err |-> "TypeError", inst |-> <<>>]
    ELSE IF ~verify_dims_list(arg.t, domain.periods)
    THEN [err |-> "ValueError", inst |-> <<>>]
    ELSE [err |-> "", inst |-> << Instance(domain, TableRep(arg.t), <<arg.t>>) >>]

\* type(self)(representation = ..., domain = ...) as the last statement of
\* call `out.op`: the new instance is appended, or the constructor raises.
construct(fs, out, arg, domain, n) ==
    LET made == Function_init(arg, domain)
    IN  IF made.inst = <<>>
        THEN Result(fs, [out EXCEPT !.kind = "raise", !.err = made.err], n, NoObs)
        ELSE Result(Append(fs, made.inst[1]),
                    [out EXCEPT !.kind = "function", !.inst = Len(fs) + 1], n, NoObs)

\* Function(representation, domain), called by the user.
new(fs, arg, domain) ==
    construct(fs, [Outcome("new", 0) EXCEPT !.arg = <<arg>>, !.domain = <<domain>>],
              arg, domain, 0)

\* The end of to_table: self.table = table; return table, where `made` is
\* what function_to_table gave (a table, or the exception it passed on).
to_table_store(fs, i, out, made) ==
    IF made.kind = "raise"
    THEN Result(fs, [out EXCEPT !.kind = "raise", !.err = made.err], made.calls, NoObs)
    ELSE Result([fs EXCEPT ![i].table = made.table],
                [out EXCEPT !.kind = "table", !.table = made.table],
                made.calls, NoObs)

\* Function.to_table(*args)
to_table(fs, i, args, env) ==
    LET out == [Outcome("to_table", i) EXCEPT !.args = args]
    IN  IF ~discrete_periodic_domain(fs[i].domain)
        THEN Result(fs, out, 0, NoObs)
        ELSE IF fs[i].table # <<>>
        THEN Result(fs, [out EXCEPT !.kind = "table", !.table = fs[i].table], 0, NoObs)
        ELSE to_table_store(fs, i, out,
                 function_to_table(fs, fs[i].representation, fs[i].domain.periods,
                                   args, env))

\* What evaluate hands its caller: the value, or the exception, of the
\* representation.
evaluate_outcome(out, got) ==
    IF IsValue(got) THEN [out EXCEPT !.kind = "value", !.num = got.val]
    ELSE [out EXCEPT !.kind = "raise", !.err = got.err]

\* Function.evaluate(list_arg, *args) of a pushforward, with the trace
\* `run` of its closure.
Function_evaluate_traced(fs, out, run) ==
    Result(fs, evaluate_outcome(out, run.out), 1, run.obs)

\* Function.evaluate(list_arg, *args), called by the user (also __call__).
Function_evaluate(fs, i, list_arg, args, env) ==
    LET out == [Outcome("evaluate", i) EXCEPT !.x = list_arg, !.args = args]
        lenOk == length(fs[i].domain) = Len(list_arg)
        r == fs[i].representation
    IN  IF lenOk /\ r.tag = "pushforward"
        THEN Function_evaluate_traced(fs, out,
                 pushforward_new_representation(
                     fs, r, project_element(fs[i].domain, list_arg), args, env))
        ELSE Result(fs, evaluate_outcome(out, evaluate(fs, i, list_arg, args, env)),
                    IF lenOk THEN 1 ELSE 0, NoObs)

\* A mutant of copy: the receiver itself is returned.
copy_aliased(fs, i) ==
    Result(fs, [Outcome("copy", i) EXCEPT !.kind = "function", !.inst = i], 0, NoObs)

\* Function.copy(): copy_func copies the function object, which keeps its
\* behaviour and the instance it captured; the domain is copied by value.
copy(fs, i) ==
    construct(fs, Outcome("copy", i), FunctionArg(fs[i].representation), fs[i].domain, 0)

\* Function.pointwise(other, operator)
pointwise(fs, i, j, operator) ==
    LET out == [Outcome("pointwise", i) EXCEPT !.other = j]
    IN  IF fs[i].domain # fs[j].domain
        THEN Result(fs, [out EXCEPT !.kind = "raise", !.err = "ValueError"], 0, NoObs)
        ELSE construct(fs, out,
                       FunctionArg([tag |-> "pointwise", fname |-> << "new_repr" >>,
                                    self |-> i, other |-> j,
                                    operator |-> operator]),
                       fs[i].domain, 0)

\* A mutant of pullback: the test of the morphism's target is missing.
pullback_unchecked(fs, i, morphism) ==
    construct(fs, [Outcome("pullback", i) EXCEPT !.morphism = <<morphism>>],
              FunctionArg([tag |-> "pullback", self |-> i, morphism |-> morphism,
                                    fname |-> update_name(<< "pullback" >>,
                                                          NameOf(fs[i].representation))]),
              morphism.source, 0)

\* Function.pullback(morphism)
pullback(fs, i, morphism) ==
    LET out == [Outcome("pullback", i) EXCEPT !.morphism = <<morphism>>]
    IN  IF ~(fs[i].domain = morphism.target)
        THEN Result(fs, [out EXCEPT !.kind = "raise", !.err = "ValueError"], 0, NoObs)
        ELSE construct(fs, out,
                       FunctionArg([tag |-> "pullback", self |-> i, morphism |-> morphism,
                                    fname |-> update_name(<< "pullback" >>,
                                                          NameOf(fs[i].representation))]),
                       morphism.source, 0)

\* Function.pushforward(morphism, norm_condition = None); the optional
\* norm_condition defaults to norm(element, p = 1) <= 10.
pushforward(fs, i, morphism, nc) ==
    LET out == [Outcome("pushforward", i) EXCEPT !.morphism = <<morphism>>]
    IN  IF ~(fs[i].domain = morphism.source)
        THEN Result(fs, [out EXCEPT !.kind = "raise", !.err = "ValueError"], 0, NoObs)
        ELSE construct(fs, out,
                       FunctionArg([tag |-> "pushforward", self |-> i, morphism |-> morphism,
                                    fname |-> update_name(<< "pushforward" >>,
                                                          NameOf(fs[i].representation)),
                                    norm_condition |->
                                        IF nc = <<>> THEN [bound |-> DefaultNormBound]
                                        ELSE nc[1]]),
                       morphism.target, 0)

\* Function.shift(list_shift)
shift(fs, i, list_shift) ==
    construct(fs, Outcome("shift", i),
              FunctionArg([tag |-> "shift", self |-> i, list_shift |-> list_shift,
                           fname |-> update_name(<< "shift" >>, NameOf(fs[i].representation))]),
              fs[i].domain, 0)

\* Function.transversal(epimorphism, transversal_rule, default = 0)
transversal(fs, i, epimorphism, transversal_rule, default) ==
    construct(fs, Outcome("transversal", i),
              FunctionArg([tag |-> "transversal", fname |-> << "new_representation" >>,
                           self |-> i, epimorphism |-> epimorphism,
                           transversal_rule |-> transversal_rule, default |-> default]),
              epimorphism.source, 0)

\* Function._fft_wrapper from the transform on: `t` is what the call
\* self.to_table() left behind.
fft_transform(out, func_to_wrap, domain, t) ==
    IF t.ret.kind = "raise"
    THEN Result(t.funcs, [out EXCEPT !.kind = "raise", !.err = t.ret.err], t.evals, NoObs)
    ELSE IF func_to_wrap \notin {"fftn", "ifftn"}
    THEN Result(t.funcs, [out EXCEPT !.kind = "raise", !.err = "ValueError"],
                t.evals, NoObs)
    ELSE IF t.ret.kind = "none"
    THEN \* the transform is handed None and fails on it
         Result(t.funcs,
                [out EXCEPT !.kind = "raise", !.err = "TypeError", !.transformed = TRUE],
                t.evals, NoObs)
    ELSE LET table == t.ret.table[1]
             dims == domain.periods
             table_computed ==
                 IF func_to_wrap = "fftn"
                 THEN TableDiv(fftn(table), ProdSeq(dims))
                 ELSE TableMul(ifftn(table), ProdSeq(dims))
         IN  construct(t.funcs, [out EXCEPT !.transformed = TRUE],
                       TableArg(table_computed), domain, t.evals)

\* Function._fft_wrapper(func_to_wrap, func_type), reached from dft and
\* idft. func_type is optional; the callers' default is None.
fft_wrapper(fs, i, op, func_to_wrap, func_type, env) ==
    LET domain == fs[i].domain
        dims == domain.periods
        out == Outcome(op, i)
    IN  IF (~ \A k \in 1..Len(dims) : dims[k] > 0) /\ is_FGA(domain)
        THEN \* return ValueError(...): the exception object is returned
             Result(fs, [out EXCEPT !.kind = "error_object", !.err = "ValueError"], 0, NoObs)
        ELSE IF func_type # <<>>
        THEN \* table = func(...): the name func is not defined
             Result(fs, [out EXCEPT !.kind = "raise", !.err = "NameError"], 0, NoObs)
        ELSE fft_transform(out, func_to_wrap, domain, to_table(fs, i, <<>>, env))

\* Function.dft(func_type = None)
dft(fs, i, func_type, env) == fft_wrapper(fs, i, "dft", "fftn", func_type, env)

\* Function.idft(func_type = None)
idft(fs, i, func_type, env) == fft_wrapper(fs, i, "idft", "ifftn", func_type, env)

---------------------------------------------------------------------------
(* The actions: one per call a user of the class can make.                 *)

Apply(result) ==
    /\ funcs' = result.funcs
    /\ origin' = IF Len(result.funcs) > Len(funcs)
                 THEN Append(origin, [op |-> result.ret.op, self |-> result.ret.self])
                 ELSE origin
    /\ ret' = result.ret
    /\ evals' = result.evals
    /\ obs' = result.obs
    /\ UNCHANGED <<threads, cache_log>>

Instances == 1..Len(funcs)

New(arg, domain) == Apply(new(funcs, arg, domain))

ToTable(i, args, env) == Apply(to_table(funcs, i, args, env))

Evaluate(i, list_arg, args, env) == Apply(Function_evaluate(funcs, i, list_arg, args, env))

Copy(i) == Apply(copy(funcs, i))

Pointwise(i, j, operator) == Apply(pointwise(funcs, i, j, operator))

Pullback(i, morphism) == Apply(pullback(funcs, i, morphism))

Pushforward(i, morphism, nc) == Apply(pushforward(funcs, i, morphism, nc))

Shift(i, list_shift) == Apply(shift(funcs, i, list_shift))

Transversal(i, epimorphism, transversal_rule, default) ==
    Apply(transversal(funcs, i, epimorphism, transversal_rule, default))

Dft(i, func_type, env) == Apply(dft(funcs, i, func_type, env))

Idft(i, func_type, env) == Apply(idft(funcs, i, func_type, env))

---------------------------------------------------------------------------
(* The groups, morphisms and collaborator choices the specifications use.  *)

Z == FGA(<<0>>)

Zn(n) == FGA(<<n>>)

\* The coordinates a caller passes: -MaxCoord..MaxCoord in one dimension,
\* 0 and 1 in each coordinate otherwise.
MaxCoord == 2

Points(domain) ==
    IF length(domain) = 1 THEN { <<a>> : a \in (-MaxCoord)..MaxCoord }
    ELSE Tuples([i \in 1..length(domain) |-> {0, 1}])

\* The collaborators' choices: the solution the solver prefers, and what
\* arithmetic on its missing answer does (raise, or go on silently).
DefaultEnv == [pick |-> <<0, 0>>, nosol |-> "raise"]

Envs ==
    { [pick |-> <<a, 0>>, nosol |-> "raise"] : a \in {-1, 0, 1} }
        \cup { [pick |-> <<0, 0>>, nosol |-> "silent"] }

StartWith(start) ==
    /\ funcs \in { <<f>> : f \in start }
    /\ origin = << [op |-> "new", self |-> 0] >>
    /\ ret = Outcome("none", 0)
    /\ evals = 0
    /\ obs = NoObs
    /\ threads = <<>>
    /\ cache_log = <<>>

---------------------------------------------------------------------------
(* Pushforward: a function on the source of a morphism is pushed forward   *)
(* and the result is evaluated.                                            *)

\* Z -> Z_2 (a = 1, and a = 2 whose kernel is all of Z), Z -> Z_3,
\* Z -> Z_4 (a = 2 has no preimage of odd points), Z_4 -> Z_2 (a periodic
\* source), and diag(1, 2): Z x Z -> Z_2 x Z_3 of the module's own example.
PushMorphisms ==
    { HomLCA(<< <<1>> >>, Z, Zn(2)),
      HomLCA(<< <<2>> >>, Z, Zn(2)),
      HomLCA(<< <<1>> >>, Z, Zn(3)),
      HomLCA(<< <<2>> >>, Z, Zn(4)),
      HomLCA(<< <<1>> >>, Zn(4), Zn(2)),
      HomLCA(Diag(<<1, 2>>), FGA(<<0, 0>>), FGA(<<2, 3>>)) }

PushSources == { m.source : m \in PushMorphisms }

\* None (the default), and caller-supplied bounds on the 1-norm.
NormConditions == { <<>>, << [bound |-> 8] >>, << [bound |-> 1] >> }

PushFunctions ==
    { Instance(D, FunctionRep(name), <<>>) : D \in PushSources, name \in {"power", "linear"} }

InitPush == StartWith(PushFunctions)

\* The bound on the number of instances of these behaviours.
MaxFuncs == 2

PushCall ==
    /\ Len(funcs) < MaxFuncs
    /\ \E i \in Instances, m \in PushMorphisms, nc \in NormConditions : Pushforward(i, m, nc)

PushEvaluate ==
    \E i \in Instances : \E x \in Points(funcs[i].domain), env \in Envs :
        Evaluate(i, x, <<>>, env)

NextPush == PushCall \/ PushEvaluate

SpecPush == InitPush /\ [][NextPush]_vars

---------------------------------------------------------------------------
(* Claims about pushforward, stated on the state after a pushforward       *)
(* instance has been evaluated.                                            *)

\* The last call evaluated an instance whose representation is the
\* closure of pushforward.
PushEvaluated == ret.op = "evaluate" /\ obs.pushforward

\* The elements of a group that can be admissible under a bound on the
\* 1-norm: the reduced coordinates of a periodic factor, and -bound..bound
\* in an infinite one.
SourceElements(D, bound) ==
    Tuples([i \in 1..length(D) |->
              IF D.periods[i] > 0 THEN 0..(D.periods[i] - 1) ELSE (-bound)..bound])

\* The admissible part of the fiber of y under phi.
AdmissiblePreimages(phi, nc, y) ==
    { x \in SourceElements(phi.source, nc.bound) :
        norm_condition(nc, x) /\ MorphEvaluate(phi, x) = y }

\* The symmetric window [-W, W]^d of combination vectors, W = 8.
SymmetricWindow(d) == Tuples([i \in 1..d |-> WindowLow..WindowHigh])

\* x is base_ans plus the image of a combination vector of the symmetric
\* window, as an element of the source group.
InWindow(phi, base_ans, x) ==
    LET ker == kernel(phi)
    IN  \E c \in SymmetricWindow(length(ker.source)) :
            project_element(phi.source, VecAdd(base_ans, MorphEvaluate(ker, c)))
                = project_element(phi.source, x)

\* The sum of the representation of instance i over a set of elements.
FiberSum(i, S) ==
    SumNums(S, [x \in S |-> Rep(funcs, funcs[i].representation, x, <<>>, DefaultEnv).val])

\* C1: when y has a preimage and every admissible preimage of y lies inside
\* the enumeration window, the pushforward at y is the sum of the original
\* representation over exactly the admissible preimages of y.
C1_PushforwardSumsAdmissibleFiber ==
    PushEvaluated /\ obs.solved =>
        LET r == funcs[ret.self].representation
            y == project_element(funcs[ret.self].domain, ret.x)
            AP == AdmissiblePreimages(r.morphism, r.norm_condition, y)
        IN  (\A x \in AP : InWindow(r.morphism, obs.base_ans[1], x)) =>
                /\ ret.kind = "value"
                /\ ret.num = FiberSum(r.self, AP)

\* C2: the combination vectors of one evaluation range over the full
\* symmetric window [-8, 8]^d: every coordinate takes each of the 17 values
\* -8..8, d the dimension of the kernel morphism's source.
C2_WindowIsSymmetric ==
    PushEvaluated /\ obs.solved /\ ret.kind = "value" =>
        LET r == funcs[ret.self].representation
            d == length(kernel(r.morphism).source)
        IN  { obs.visited[k] : k \in 1..Len(obs.visited) } = SymmetricWindow(d)

\* C3: when the solver finds no solution for y, the evaluation does not
\* enter the fiber enumeration, and its outcome is the explicit one: the
\* raised no-solution condition or the zero of an empty fiber.
C3_NoSolutionIsExplicit ==
    PushEvaluated /\ ~obs.solved =>
        /\ obs.visited = <<>>
        /\ \/ ret.kind = "raise" /\ ret.err = "NoCongruenceSolution"
           \/ ret.kind = "value" /\ ret.num = Num(0)


\* C16: in one evaluation of a pushforward, each admissible preimage, as an
\* element of the source group, contributes to the sum at most once: no two
\* admitted candidates of the loop are the same element of the source, also
\* when the source has periodic factors.
C16_PreimageContributesOnce ==
    PushEvaluated /\ obs.solved =>
        LET D == funcs[ret.self].representation.morphism.source
        IN  \A j, k \in 1..Len(obs.admitted) :
                project_element(D, obs.admitted[j]) = project_element(D, obs.admitted[k])
                    => j = k
---------------------------------------------------------------------------
(* Transversal: a function on Z_n is moved to the source of an             *)
(* epimorphism onto Z_n and the result is sampled.                         *)

\* Z ->> Z_5 of the doctest, Z ->> Z_3, and Z_10 ->> Z_5 (a periodic source).
TransEpimorphisms ==
    { HomLCA(<< <<1>> >>, Z, Zn(5)),
      HomLCA(<< <<1>> >>, Z, Zn(3)),
      HomLCA(<< <<1>> >>, Zn(10), Zn(5)) }

TransRules ==
    { [name |-> "centered", n |-> 5], [name |-> "centered", n |-> 3], [name |-> "least", n |-> 0] }

TransDefaults == { Num(0), Num(-1) }

TransFunctions ==
    { Instance(D, FunctionRep(name), <<>>) :
        D \in { m.target : m \in TransEpimorphisms }, name \in {"square_sum", "linear"} }

\* The sample points: list(range(-n, n + 1)), which is the doctest's for n = 5.
MaxSample == 6

SamplePoints == { <<a>> : a \in (-MaxSample)..MaxSample }

InitTrans == StartWith(TransFunctions)

TransCall ==
    /\ Len(funcs) < MaxFuncs
    /\ \E i \in Instances, m \in TransEpimorphisms, rule \in TransRules, d \in TransDefaults :
           Transversal(i, m, rule, d)

TransEvaluate ==
    \E i \in Instances, x \in SamplePoints : Evaluate(i, x, <<>>, DefaultEnv)

NextTrans == TransCall \/ TransEvaluate

SpecTrans == InitTrans /\ [][NextTrans]_vars

\* The elements of a group of dimension 1: its reduced coordinates, or
\* the sample points of an infinite group.
Elements(D) ==
    IF D.periods[1] > 0 THEN { <<a>> : a \in 0..(D.periods[1] - 1) } ELSE SamplePoints

\* rule is a section of phi: phi(rule(y)) = y for every y of the target.
IsSection(rule, phi) ==
    \A y \in Elements(phi.target) : MorphEvaluate(phi, CallRule(rule, y)) = y

\* Instance i, a transversal, carries the original value at x: what it
\* returns at x does not depend on its default.
Carries(i, x) ==
    LET r == funcs[i].representation
        px == project_element(funcs[i].domain, x)
    IN  Rep(funcs, [r EXCEPT !.default = Num(-7)], px, <<>>, DefaultEnv)
            = Rep(funcs, [r EXCEPT !.default = Num(-8)], px, <<>>, DefaultEnv)

\* The sample of the doctest: f_on_Z.sample(list(range(-n, n+1))), n = 5.
DoctestSample == << 0, 0, 0, 9, 16, 0, 1, 4, 0, 0, 0 >>

IsDoctestTransversal(i) ==
    /\ funcs[i].representation.tag = "transversal"
    /\ funcs[i].representation.epimorphism = HomLCA(<< <<1>> >>, Z, Zn(5))
    /\ funcs[i].representation.transversal_rule = [name |-> "centered", n |-> 5]
    /\ funcs[i].representation.default = Num(0)
    /\ funcs[funcs[i].representation.self] = Instance(Zn(5), FunctionRep("square_sum"), <<>>)

ReturnsReduced(rule, phi) ==
    \A y \in Elements(phi.target) :
        CallRule(rule, y) = project_element(phi.source, CallRule(rule, y))

---------------------------------------------------------------------------
(* Shift: a function is shifted and the result is evaluated.               *)

\* The table [i**2 for i in range(n)] of the module's own example.
SquaresTable(n) == Table(<<n>>, [c \in Coords(<<n>>) |-> Num(c[1] * c[1])])

ShiftFunctions ==
    { Instance(D, FunctionRep(name), <<>>) :
        D \in { Z, Zn(4), FGA(<<0, 3>>) }, name \in {"power", "linear"} }
        \cup { Instance(Zn(4), TableRep(SquaresTable(4)), << SquaresTable(4) >>) }

\* The shifts: every coordinate in -MaxShift..MaxShift.
MaxShift == 2

Shifts(domain) == Tuples([i \in 1..length(domain) |-> (-MaxShift)..MaxShift])

InitShift == StartWith(ShiftFunctions)

ShiftCall ==
    /\ Len(funcs) < MaxFuncs
    /\ \E i \in Instances : \E s \in Shifts(funcs[i].domain) : Shift(i, s)

ShiftEvaluate ==
    \E i \in Instances : \E x \in Points(funcs[i].domain) : Evaluate(i, x, <<>>, DefaultEnv)

NextShift == ShiftCall \/ ShiftEvaluate

SpecShift == InitShift /\ [][NextShift]_vars

\* C5: shift(s) is a Function on the same domain, and evaluated at x it
\* is the original function evaluated at the component-wise difference
\* x - s, also on domains with finite periodic factors.
C5_ShiftEvaluatesOriginalAtDifference ==
    \A i \in Instances :
        origin[i].op = "shift" =>
            LET s == funcs[i].representation.list_shift
                f == origin[i].self
            IN  /\ funcs[i].domain = funcs[f].domain
                /\ ret.op = "evaluate" /\ ret.self = i =>
                     LET at == evaluate(funcs, f, [k \in 1..Len(ret.x) |-> ret.x[k] - s[k]],
                                        <<>>, DefaultEnv)
                     IN  /\ ret.kind = at.kind
                         /\ ret.num = at.val

---------------------------------------------------------------------------
(* The transform pair: dft and idft are applied and the results evaluated. *)

\* The circle T = R/Z and the line R: not discrete.
T == LCA(<<1>>, <<FALSE>>)

R == LCA(<<0>>, <<FALSE>>)

\* Discrete groups with periods 1, 2 or 4, the infinite group Z, T and R.
FftDomains == { Zn(2), Zn(4), FGA(<<2, 2>>), FGA(<<4, 2>>), FGA(<<1, 4>>), Z, FGA(<<2, 0>>), T, R }

FftFunctions ==
    { Instance(D, FunctionRep(name), <<>>) : D \in FftDomains, name \in {"power", "linear"} }
        \cup { Instance(Zn(4), TableRep(SquaresTable(4)), << SquaresTable(4) >>) }

\* func_type: None, or the name of a numpy grid.
FuncTypes == { <<>>, << "ogrid" >> }

\* The bound on the number of instances of these behaviours.
MaxFftFuncs == 3

InitFft == StartWith(FftFunctions)

DftCall ==
    /\ Len(funcs) < MaxFftFuncs
    /\ \E i \in Instances, func_type \in FuncTypes : Dft(i, func_type, DefaultEnv)

IdftCall ==
    /\ Len(funcs) < MaxFftFuncs
    /\ \E i \in Instances, func_type \in FuncTypes : Idft(i, func_type, DefaultEnv)

FftEvaluate ==
    \E i \in Instances : \E x \in Points(funcs[i].domain) : Evaluate(i, x, <<>>, DefaultEnv)

NextFft == DftCall \/ IdftCall \/ FftEvaluate

SpecFft == InitFft /\ [][NextFft]_vars

\* C6: dft() or idft() on a domain that is not fully discrete with
\* strictly positive periods raises the unsupported-domain error
\* (ValueError) at the call: it returns nothing, neither a Function nor an
\* error object, and does not proceed to the transform.
C6_TransformRaisesOnUnsupportedDomain ==
    ret.op \in {"dft", "idft"} /\ ~discrete_periodic_domain(funcs[ret.self].domain) =>
        /\ ret.kind = "raise"
        /\ ret.err = "ValueError"
        /\ ~ret.transformed

\* The value of instance i at the coordinates c.
ValueAt(i, c) == evaluate(funcs, i, c, <<>>, DefaultEnv)

\* Instances i and k have the same value at every point of the domain of i.
SameValues(i, k) ==
    \A c \in Coords(funcs[i].domain.periods) : ValueAt(k, c) = ValueAt(i, c)

\* The sum of the values of instance i over its domain.
TotalOf(i) ==
    LET C == Coords(funcs[i].domain.periods)
    IN  SumNums(C, [c \in C |-> ValueAt(i, c).val])

Origin(k) == [c \in 1..Len(funcs[k].domain.periods) |-> 0]

---------------------------------------------------------------------------
(* Pullback, pushforward and pointwise with matching and with mismatching  *)
(* domains.                                                                *)

\* The same periods as Z_4, but not discrete: a different group.
Circle4 == LCA(<<4>>, <<FALSE>>)

\* Identities, [2]: Z -> Z and [1, 1]^T: Z -> Z_5 x Z_3 of the doctests of
\* pullback, Z -> Z_4, and a morphism into the non-discrete group.
PullMorphisms ==
    { HomLCA(<< <<1>> >>, Z, Z),
      HomLCA(<< <<1>> >>, Zn(4), Zn(4)),
      HomLCA(Diag(<<1, 1>>), FGA(<<5, 3>>), FGA(<<5, 3>>)),
      HomLCA(<< <<2>> >>, Z, Z),
      HomLCA(<< <<1>>, <<1>> >>, Z, FGA(<<5, 3>>)),
      HomLCA(<< <<1>> >>, Z, Zn(4)),
      HomLCA(<< <<1>> >>, Z, Circle4) }

CallMorphisms ==
    { HomLCA(<< <<1>> >>, Z, Zn(2)), HomLCA(<< <<1>> >>, Zn(4), Zn(2)) }

CallFunctions ==
    { Instance(Z, FunctionRep("power"), <<>>),
      Instance(Zn(4), FunctionRep("linear"), <<>>),
      Instance(FGA(<<5, 3>>), FunctionRep("power"), <<>>),
      Instance(Zn(4), TableRep(SquaresTable(4)), << SquaresTable(4) >>) }

\* The bound on the number of instances of these behaviours.
MaxCallFuncs == 3

InitCalls == StartWith(CallFunctions)

NewCall ==
    /\ Len(funcs) < MaxCallFuncs
    /\ New(FunctionArg(FunctionRep("linear")), Z)

PullbackCall ==
    /\ Len(funcs) < MaxCallFuncs
    /\ \E i \in Instances, m \in PullMorphisms : Pullback(i, m)

PushforwardCall ==
    /\ Len(funcs) < MaxCallFuncs
    /\ \E i \in Instances, m \in CallMorphisms : Pushforward(i, m, <<>>)

PointwiseCall ==
    /\ Len(funcs) < MaxCallFuncs
    /\ \E i \in Instances, j \in Instances : Pointwise(i, j, "add")

CallsEvaluate ==
    \E i \in Instances : \E x \in Points(funcs[i].domain) : Evaluate(i, x, <<>>, DefaultEnv)

NextCalls == NewCall \/ PullbackCall \/ PushforwardCall \/ PointwiseCall \/ CallsEvaluate

SpecCalls == InitCalls /\ [][NextCalls]_vars

IsIdentity(phi) ==
    phi.source = phi.target /\ phi.A = Diag([i \in 1..length(phi.source) |-> 1])

\* C7: pullback(phi) succeeds only when phi.target equals self.domain, and
\* then yields a Function on phi.source whose value at every x is self's
\* value at phi.evaluate(x); along the identity morphism of the domain the
\* value at every point is unchanged.
C7_PullbackComposes ==
    /\ ret.op = "pullback" =>
         (ret.kind = "function" <=> ret.morphism[1].target = funcs[ret.self].domain)
    /\ \A k \in Instances :
         origin[k].op = "pullback" =>
            LET phi == funcs[k].representation.morphism
                i == origin[k].self
            IN  /\ phi.target = funcs[i].domain
                /\ funcs[k].domain = phi.source
                /\ ret.op = "evaluate" /\ ret.self = k =>
                     LET at == evaluate(funcs, i, MatVec(phi.A, ret.x), <<>>, DefaultEnv)
                         same == evaluate(funcs, i, ret.x, <<>>, DefaultEnv)
                     IN  /\ ret.kind = at.kind /\ ret.num = at.val
                         /\ IsIdentity(phi) => ret.kind = same.kind /\ ret.num = same.val

\* The pullback of power along [2]: Z -> Z has been evaluated at 2 and is
\* (2 * 2) ** 2.
C7_Witness ==
    \E k \in Instances :
        /\ origin[k].op = "pullback"
        /\ funcs[k].representation.morphism = HomLCA(<< <<2>> >>, Z, Z)
        /\ funcs[origin[k].self].representation = FunctionRep("power")
        /\ ret.op = "evaluate" /\ ret.self = k /\ ret.x = <<2>> /\ ret.num = Num(16)

\* C8: pullback with phi.target # self.domain, pushforward with
\* phi.source # self.domain and pointwise with other.domain # self.domain
\* raise the domain-mismatch error (ValueError) at the call, before any
\* representation is evaluated, and produce no Function.
C8_DomainMismatchRaises ==
    /\ \/ ret.op = "pullback" /\ ret.morphism[1].target # funcs[ret.self].domain
       \/ ret.op = "pushforward" /\ ret.morphism[1].source # funcs[ret.self].domain
       \/ ret.op = "pointwise" /\ funcs[ret.other].domain # funcs[ret.self].domain
       => ret.kind = "raise" /\ ret.err = "ValueError" /\ ret.inst = 0 /\ evals = 0
    /\ \A k \in Instances :
         LET r == funcs[k].representation
             i == origin[k].self
         IN  /\ origin[k].op = "pullback" => r.morphism.target = funcs[i].domain
             /\ origin[k].op = "pushforward" => r.morphism.source = funcs[i].domain
             /\ origin[k].op = "pointwise" => funcs[r.other].domain = funcs[i].domain

\* Each of the three calls has been made with a mismatching domain.
C8_Witness ==
    /\ ret.kind = "raise"
    /\ \/ ret.op = "pullback" /\ ret.morphism[1].target = Circle4
                              /\ funcs[ret.self].domain = Zn(4)
       \/ ret.op = "pushforward" /\ ret.morphism[1].source # funcs[ret.self].domain
       \/ ret.op = "pointwise" /\ funcs[ret.other].domain # funcs[ret.self].domain

---------------------------------------------------------------------------
(* The table cache: to_table with and without extra arguments, evaluate,   *)
(* copy and dft on the same instances.                                     *)

TableDomains == { Zn(2), Zn(4), FGA(<<2, 2>>), Z }

TableFunctions ==
    { Instance(D, FunctionRep(name), <<>>) : D \in TableDomains, name \in {"power", "linear"} }
        \cup { Instance(Zn(4), TableRep(SquaresTable(4)), << SquaresTable(4) >>) }

\* The extra arguments of to_table(*args): none, or an exponent for power.
ExtraArgs == { <<>>, <<1>>, <<3>> }

\* The bound on the number of instances of these behaviours.
MaxTableFuncs == 2

InitTable == StartWith(TableFunctions)

TableToTable ==
    \E i \in Instances, args \in ExtraArgs : ToTable(i, args, DefaultEnv)

TableEvaluate ==
    \E i \in Instances : \E x \in Points(funcs[i].domain) : Evaluate(i, x, <<>>, DefaultEnv)

TableCopy ==
    /\ Len(funcs) < MaxTableFuncs
    /\ \E i \in Instances : Copy(i)

TableDft ==
    /\ Len(funcs) < MaxTableFuncs
    /\ \E i \in Instances : Dft(i, <<>>, DefaultEnv)

NextTable == TableToTable \/ TableEvaluate \/ TableCopy \/ TableDft

SpecTable == InitTable /\ [][NextTable]_vars

\* The cached table of instance i agrees with evaluate at every in-range
\* coordinate.
CacheAgreesWithEvaluate(i) ==
    \A c \in Coords(funcs[i].domain.periods) :
        call_nested_list(funcs[i].table[1], c) = evaluate(funcs, i, c, <<>>, DefaultEnv)

\* C10: on a discrete-periodic domain the table cache is written at most
\* once: a to_table() call that finds the cache returns that table without
\* evaluating the representation and leaves the cache as it is; and the
\* entry of the cached table at each in-range coordinate equals evaluate at
\* that coordinate.
C10_TableCacheWrittenOnceAndFaithful ==
    \A i \in Instances :
        discrete_periodic_domain(funcs[i].domain) /\ funcs[i].table # <<>> =>
            /\ ret.op = "to_table" /\ ret.self = i =>
                 /\ ret.kind = "table" /\ ret.table = funcs[i].table
                 /\ evals \in {0, Cardinality(Coords(funcs[i].domain.periods))}
            /\ CacheAgreesWithEvaluate(i)

\* The part of C10 about the writes: a cache that is present is never
\* cleared or replaced, and a to_table call that finds it returns it
\* without evaluating the representation.
TableCacheWriteOnce ==
    [][\A i \in Instances :
         funcs[i].table # <<>> =>
            /\ funcs'[i].table = funcs[i].table
            /\ ret'.op = "to_table" /\ ret'.self = i =>
                 ret'.table = funcs[i].table /\ evals' = 0]_vars

\* C15: for a closure-backed Function on a discrete-periodic domain the
\* table to_table(*extra) returns agrees with evaluation under the extra
\* arguments of that call at every in-range coordinate, whatever extra
\* arguments earlier to_table calls were given.
C15_TableAgreesWithItsExtras ==
    ret.op = "to_table" /\ ret.kind = "table"
        /\ funcs[ret.self].representation.tag # "table" =>
        \A c \in Coords(funcs[ret.self].domain.periods) :
            call_nested_list(ret.table[1], c) = evaluate(funcs, ret.self, c, ret.args, DefaultEnv)

---------------------------------------------------------------------------
(* Every transform on the same instances: shift, pullback, pushforward,    *)
(* transversal, pointwise, dft, idft and copy, with evaluations between.   *)

FrameFunctions ==
    { Instance(Z, FunctionRep("power"), <<>>),
      Instance(Zn(4), FunctionRep("linear"), <<>>),
      Instance(Zn(2), FunctionRep("power"), <<>>),
      Instance(Zn(4), TableRep(SquaresTable(4)), << SquaresTable(4) >>) }

FrameMorphisms ==
    { HomLCA(<< <<1>> >>, Z, Zn(4)),
      HomLCA(<< <<1>> >>, Z, Zn(2)),
      HomLCA(<< <<1>> >>, Zn(4), Zn(2)) }

Transforms ==
    { "shift", "pullback", "pushforward", "transversal", "pointwise", "dft", "idft", "copy" }

\* The bound on the number of instances of these behaviours.
MaxFrameFuncs == 2

InitFrame == StartWith(FrameFunctions)

FrameShift ==
    /\ Len(funcs) < MaxFrameFuncs
    /\ \E i \in Instances, s \in {-1, 1} : Shift(i, <<s>>)

FramePullback ==
    /\ Len(funcs) < MaxFrameFuncs
    /\ \E i \in Instances, m \in FrameMorphisms : Pullback(i, m)

FramePushforward ==
    /\ Len(funcs) < MaxFrameFuncs
    /\ \E i \in Instances, m \in FrameMorphisms : Pushforward(i, m, <<>>)

FrameTransversal ==
    /\ Len(funcs) < MaxFrameFuncs
    /\ \E i \in Instances, m \in FrameMorphisms :
           Transversal(i, m, [name |-> "least", n |-> 0], Num(0))

FramePointwise ==
    /\ Len(funcs) < MaxFrameFuncs
    /\ \E i \in Instances, j \in Instances : Pointwise(i, j, "add")

FrameDft ==
    /\ Len(funcs) < MaxFrameFuncs
    /\ \E i \in Instances : Dft(i, <<>>, DefaultEnv)

FrameIdft ==
    /\ Len(funcs) < MaxFrameFuncs
    /\ \E i \in Instances : Idft(i, <<>>, DefaultEnv)

FrameCopy ==
    /\ Len(funcs) < MaxFrameFuncs
    /\ \E i \in Instances : Copy(i)

FrameEvaluate ==
    \E i \in Instances : \E x \in Points(funcs[i].domain) : Evaluate(i, x, <<>>, DefaultEnv)

NextFrame ==
    \/ FrameShift \/ FramePullback \/ FramePushforward \/ FrameTransversal
    \/ FramePointwise \/ FrameDft \/ FrameIdft \/ FrameCopy \/ FrameEvaluate

SpecFrame == InitFrame /\ [][NextFrame]_vars

\* C11: a transform that returns a Function returns a new instance,
\* distinct from the receiver; and no call changes the representation
\* (its name included) or the domain of an existing instance, or its value
\* at any point.
C11_TransformsLeaveReceiver ==
    [][/\ funcs' # funcs => \A i \in Instances :
            /\ funcs'[i].representation = funcs[i].representation
            /\ funcs'[i].domain = funcs[i].domain
            /\ \A x \in Points(funcs[i].domain) :
                 evaluate(funcs', i, x, <<>>, DefaultEnv)
                    = evaluate(funcs, i, x, <<>>, DefaultEnv)
       /\ ret'.op \in Transforms /\ ret'.kind = "function" =>
            /\ ret'.inst # ret'.self
            /\ ret'.inst = Len(funcs) + 1
            /\ Len(funcs') = Len(funcs) + 1]_vars

\* A receiver whose table cache dft has filled is evaluated after the
\* transform.
C11_Witness ==
    /\ Len(funcs) = 2
    /\ origin[2].op = "dft" /\ origin[2].self = 1
    /\ funcs[1].representation = FunctionRep("linear") /\ funcs[1].table # <<>>
    /\ ret.op = "evaluate" /\ ret.self = 1 /\ ret.x = <<2>> /\ ret.num = Num(2)

---------------------------------------------------------------------------
(* Evaluation at coordinates inside and outside 0..period-1.               *)

\* [[1, 2], [3, 4], [5, 6]] of the doctest, a table on Z_3 x Z_2.
DoctestTable == Table(<<3, 2>>, [c \in Coords(<<3, 2>>) |-> Num(2 * c[1] + c[2] + 1)])

\* Z_5 x Z_10 and Z_3 x Z_2 of the doctests, Z x Z_3, Z_4 and Z.
PointFunctions ==
    { Instance(FGA(<<5, 10>>), FunctionRep("power"), <<>>),
      Instance(FGA(<<3, 2>>), TableRep(DoctestTable), << DoctestTable >>),
      Instance(FGA(<<0, 3>>), FunctionRep("linear"), <<>>),
      Instance(Zn(4), FunctionRep("power"), <<>>),
      Instance(Zn(4), TableRep(SquaresTable(4)), << SquaresTable(4) >>),
      Instance(Z, FunctionRep("power"), <<>>) }

\* The coordinates a caller passes, on either side of the periods.
PointCoords == { -7, -1, 0, 1, 2, 3, 6, 11 }

PointArgs(domain) == Tuples([j \in 1..length(domain) |-> PointCoords])

\* The extra arguments of a call: none, or an exponent.
PointExtras == { <<>>, <<1>> }

\* The bound on the number of instances of these behaviours.
MaxPointFuncs == 2

InitPoint == StartWith(PointFunctions)

PointShift ==
    /\ Len(funcs) < MaxPointFuncs
    /\ \E i \in Instances, s \in {0, 1} :
           Shift(i, [j \in 1..length(funcs[i].domain) |-> s])

PointCopy ==
    /\ Len(funcs) < MaxPointFuncs
    /\ \E i \in Instances : Copy(i)

PointEvaluate ==
    \E i \in Instances : \E x \in PointArgs(funcs[i].domain), args \in PointExtras :
        Evaluate(i, x, args, DefaultEnv)

NextPoint == PointShift \/ PointCopy \/ PointEvaluate

SpecPoint == InitPoint /\ [][NextPoint]_vars

\* x with every coordinate of a periodic factor reduced modulo its period
\* and the others unchanged.
Reduced(domain, x) ==
    [j \in 1..Len(x) |->
        IF domain.periods[j] > 0 THEN x[j] % domain.periods[j] ELSE x[j]]

\* x + k * periods, component-wise.
Translated(domain, x, k) == [j \in 1..Len(x) |-> x[j] + k[j] * domain.periods[j]]

\* C12: evaluate hands the representation the coordinates with every
\* periodic coordinate reduced modulo its period and the others unchanged,
\* so evaluate(x) = evaluate(x + k * periods) for every integer vector k,
\* for closures and for tables; f([1, 1]) = f([6, 11]) on Z_5 x Z_10.
C12_EvaluateIsPeriodic ==
    ret.op = "evaluate" =>
        LET i == ret.self
            D == funcs[i].domain
            x == ret.x
            direct == Rep(funcs, funcs[i].representation, Reduced(D, x), ret.args, DefaultEnv)
        IN  /\ ret.kind = direct.kind
            /\ ret.kind = "value" => ret.num = direct.val
            /\ \A k \in Tuples([j \in 1..Len(x) |-> {-1, 1, 2}]) :
                 LET moved == evaluate(funcs, i, Translated(D, x, k), ret.args, DefaultEnv)
                 IN  moved.kind = ret.kind /\ (ret.kind = "value" => moved.val = ret.num)
            /\ D = FGA(<<5, 10>>) /\ funcs[i].representation = FunctionRep("power")
                  /\ ret.args = <<>> /\ x \in { <<1, 1>>, <<6, 11>> } => ret.num = Num(2)

\* The doctest's power on Z_5 x Z_10 has been evaluated at [6, 11], and
\* its table on Z_3 x Z_2 at [3, 1].
C12_Witness ==
    /\ ret.op = "evaluate" /\ ret.kind = "value"
    /\ \/ /\ funcs[ret.self].domain = FGA(<<5, 10>>) /\ ret.x = <<6, 11>>
          /\ ret.num = Num(2)
       \/ /\ funcs[ret.self].representation = TableRep(DoctestTable) /\ ret.x = <<3, 1>>
          /\ ret.num = Num(2)

---------------------------------------------------------------------------
(* Construction from tables and from functions, and the transforms that    *)
(* construct from a table.                                                 *)

\* A table of shape 2 x 4.
WideTable == Table(<<2, 4>>, [c \in Coords(<<2, 4>>) |-> Num(4 * c[1] + c[2])])

InitTables == { SquaresTable(4), SquaresTable(2), WideTable }

\* Groups a table fits, groups of other periods or dimensions, an infinite
\* group, and non-discrete groups (one with the periods of Z_4).
InitDomains ==
    { Zn(4), Zn(2), FGA(<<2, 4>>), FGA(<<4, 2>>), FGA(<<2, 0>>), Z, Circle4, T }

InitArgs ==
    { TableArg(t) : t \in InitTables }
        \cup { FunctionArg(FunctionRep(name)) : name \in {"power", "linear"} }

\* The bound on the number of instances of these behaviours.
MaxInitFuncs == 2

InitInit ==
    /\ funcs = <<>>
    /\ origin = <<>>
    /\ ret = Outcome("none", 0)
    /\ evals = 0
    /\ obs = NoObs
    /\ threads = <<>>
    /\ cache_log = <<>>

InitNew ==
    /\ Len(funcs) < MaxInitFuncs
    /\ \E arg \in InitArgs, D \in InitDomains : New(arg, D)

InitDft ==
    /\ Len(funcs) < MaxInitFuncs
    /\ \E i \in Instances : Dft(i, <<>>, DefaultEnv)

InitIdft ==
    /\ Len(funcs) < MaxInitFuncs
    /\ \E i \in Instances : Idft(i, <<>>, DefaultEnv)

InitToTable == \E i \in Instances : ToTable(i, <<>>, DefaultEnv)

InitEvaluate ==
    \E i \in Instances : \E x \in Points(funcs[i].domain) : Evaluate(i, x, <<>>, DefaultEnv)

NextInit == InitNew \/ InitDft \/ InitIdft \/ InitToTable \/ InitEvaluate

SpecInit == InitInit /\ [][NextInit]_vars

\* The group is fully discrete with strictly positive periods.
FullyDiscretePeriodic(D) ==
    \A j \in 1..Len(D.periods) : D.discrete[j] /\ D.periods[j] > 0

\* C13: construction from a table succeeds only if the domain is fully
\* discrete with strictly positive periods and the shape of the table is
\* the sequence of periods, and raises otherwise; every table-backed
\* instance, those of dft and idft included, has a table whose shape is
\* the periods of its domain.
C13_TableShapeMatchesDomain ==
    /\ ret.op = "new" /\ ret.arg[1].type = "table" =>
         LET fits == /\ FullyDiscretePeriodic(ret.domain[1])
                     /\ ret.arg[1].t.shape = ret.domain[1].periods
         IN  /\ ret.kind = "function" <=> fits
             /\ ~fits => ret.kind = "raise" /\ ret.inst = 0
    /\ \A i \in Instances :
         funcs[i].representation.tag = "table" =>
            /\ FullyDiscretePeriodic(funcs[i].domain)
            /\ funcs[i].representation.table.shape = funcs[i].domain.periods
            /\ funcs[i].table = << funcs[i].representation.table >>

\* A table was refused for its shape, or a transform has constructed an
\* instance from the table it computed.
C13_Witness ==
    \/ /\ ret.op = "new" /\ ret.kind = "raise" /\ ret.err = "ValueError"
       /\ ret.arg[1] = TableArg(WideTable) /\ ret.domain[1] = FGA(<<4, 2>>)
    \/ /\ ret.op \in {"dft", "idft"} /\ ret.kind = "function"
       /\ funcs[ret.inst].representation.tag = "table"
       /\ funcs[ret.inst].domain = FGA(<<2, 4>>)

---------------------------------------------------------------------------
(* Two threads call to_table() on one instance whose cache is empty. A     *)
(* thread is at one statement of to_table; the interpreter may switch      *)
(* threads between any two statements. A table object is identified by     *)
(* the thread that built it.                                               *)

NumThreads == 2

Threads == 1..NumThreads

\* A thread about to call self.to_table() on instance i.
ThreadStart(i) ==
    [pc |-> "call", self |-> i, table |-> <<>>, built |-> FALSE, returned |-> FALSE,
     ret |-> <<>>, by |-> 0]

ThreadFunctions ==
    { Instance(D, FunctionRep(name), <<>>) :
        D \in { Zn(2), Zn(4), FGA(<<2, 2>>), FGA(<<2, 3>>) }, name \in {"power", "linear"} }

InitThreads ==
    /\ funcs \in { <<f>> : f \in ThreadFunctions }
    /\ origin = << [op |-> "new", self |-> 0] >>
    /\ ret = Outcome("none", 0)
    /\ evals = 0
    /\ obs = NoObs
    /\ threads = [t \in Threads |-> ThreadStart(1)]
    /\ cache_log = <<>>

\* if not self._discrete_periodic_domain(): return None
\* if self.table is not None: return self.table
ThreadCheck(t) ==
    LET i == threads[t].self
    IN  /\ threads[t].pc = "call"
        /\ threads' =
             [threads EXCEPT ![t] =
                IF ~discrete_periodic_domain(funcs[i].domain)
                THEN [@ EXCEPT !.pc = "done", !.returned = TRUE]
                ELSE IF funcs[i].table # <<>>
                THEN [@ EXCEPT !.pc = "done", !.returned = TRUE, !.ret = funcs[i].table,
                               !.by = cache_log[Len(cache_log)]]
                ELSE [@ EXCEPT !.pc = "compute"]]
        /\ UNCHANGED <<funcs, origin, ret, evals, obs, cache_log>>

\* table = function_to_table(self.representation, dims, *args, **kwargs)
ThreadCompute(t) ==
    LET i == threads[t].self
        made == function_to_table(funcs, funcs[i].representation, funcs[i].domain.periods,
                                  <<>>, DefaultEnv)
    IN  /\ threads[t].pc = "compute"
        /\ threads' =
             [threads EXCEPT ![t] =
                IF made.kind = "raise" THEN [@ EXCEPT !.pc = "done", !.built = TRUE]
                ELSE [@ EXCEPT !.pc = "assign", !.built = TRUE, !.table = made.table]]
        /\ UNCHANGED <<funcs, origin, ret, evals, obs, cache_log>>

\* self.table = table
ThreadAssign(t) ==
    LET i == threads[t].self
    IN  /\ threads[t].pc = "assign"
        /\ funcs' = [funcs EXCEPT ![i].table = threads[t].table]
        /\ cache_log' = Append(cache_log, t)
        /\ threads' = [threads EXCEPT ![t].pc = "return"]
        /\ UNCHANGED <<origin, ret, evals, obs>>

\* return table
ThreadReturn(t) ==
    /\ threads[t].pc = "return"
    /\ threads' = [threads EXCEPT ![t] =
                     [@ EXCEPT !.pc = "done", !.returned = TRUE, !.ret = threads[t].table,
                               !.by = t]]
    /\ UNCHANGED <<funcs, origin, ret, evals, obs, cache_log>>

NextThreads ==
    \E t \in Threads :
        ThreadCheck(t) \/ ThreadCompute(t) \/ ThreadAssign(t) \/ ThreadReturn(t)

SpecThreads == InitThreads /\ [][NextThreads]_vars

\* C14: under any interleaving of two threads that call to_table() for the
\* first time on the same closure-backed instance, the cache field is
\* assigned exactly once, a single thread materializes the representation,
\* and both calls return the identical table.
C14_TableCacheSingleWriter ==
    /\ Len(cache_log) <= 1
    /\ Cardinality({ t \in Threads : threads[t].built }) <= 1
    /\ (\A t \in Threads : threads[t].pc = "done") =>
         /\ Len(cache_log) = 1
         /\ \A t, u \in Threads :
              threads[t].ret = threads[u].ret /\ threads[t].by = threads[u].by

=============================================================================
